---------------------------- MODULE Spec2Model ----------------------------
(***************************************************************************)
(* Typed deserialization of JSON payloads (ax-first): the unchecked path   *)
(* (deserializer.ts), the hand-written validator path                      *)
(* (sentimentObject-schema.ts) and the Zod schema path (deserializer-zod). *)
(*                                                                         *)
(* JavaScript values are records [t, txt, fields, items]:                  *)
(*   t      the kind: "string", "number", "boolean", "null", "undefined",  *)
(*          "object" or "array";                                           *)
(*   txt    for a string its characters, as the sequence of lexemes they   *)
(*          form; for a number, boolean or null its literal;               *)
(*   fields for an object its own enumerable properties in insertion       *)
(*          order, a sequence of [key, val], key a string's txt;           *)
(*   items  for an array its elements.                                     *)
(* A lexeme is [c, w, inner]: c is "punct", "str", "num" or "word", w the  *)
(* spelling, inner the characters between the quotes of a "str" literal.   *)
(* White space is not modelled: JSON ignores it outside string literals.   *)
(***************************************************************************)
EXTENDS Integers, Sequences, FiniteSets, TLC

\* ------------------------------------------------------------- lexemes
Tok(c, w) == [c |-> c, w |-> w, inner |-> <<>>]
P(w) == Tok("punct", w)
StrTok(chars) == [c |-> "str", w |-> "", inner |-> chars]
\* The characters of a string spelled as one bare word, and as one number.
Chars(w) == <<Tok("word", w)>>
Digits(w) == <<Tok("num", w)>>

\* ------------------------------------------------------------- values
Val(t, txt, fields, items) ==
  [t |-> t, txt |-> txt, fields |-> fields, items |-> items]
StrV(chars) == Val("string", chars, <<>>, <<>>)
NumV(w) == Val("number", Digits(w), <<>>, <<>>)
BoolV(w) == Val("boolean", Chars(w), <<>>, <<>>)
NullV == Val("null", Chars("null"), <<>>, <<>>)
UndefinedV == Val("undefined", <<>>, <<>>, <<>>)
ObjV(fields) == Val("object", <<>>, fields, <<>>)
ArrV(items) == Val("array", <<>>, <<>>, items)
Field(k, v) == [key |-> k, val |-> v]

\* typeof v
TypeOf(v) ==
  IF v.t \in {"null", "object", "array"} THEN "object" ELSE v.t

\* Anything typeof calls an object taken for an array.
IsArrayByTypeof(v) == v.t \in {"null", "object", "array"}

\* Array.isArray(v)
IsArray(v) == v.t = "array"

\* obj[key], for an object or array without inherited data properties
HasKey(fields, k) == \E i \in DOMAIN fields : fields[i].key = k
Get(v, k) ==
  IF v.t = "object" /\ HasKey(v.fields, k)
  THEN (CHOOSE f \in {v.fields[i] : i \in DOMAIN v.fields} : f.key = k).val
  ELSE UndefinedV

\* Defining an own property: a new key is appended, an existing one keeps
\* its place and takes the new value.
SetField(fields, k, v) ==
  IF HasKey(fields, k)
  THEN [i \in DOMAIN fields |->
          IF fields[i].key = k THEN Field(k, v) ELSE fields[i]]
  ELSE Append(fields, Field(k, v))

\* The fields as a mapping from key to value, insertion order forgotten.
AsMap(fields) ==
  [k \in {fields[i].key : i \in DOMAIN fields} |->
     (CHOOSE f \in {fields[i] : i \in DOMAIN fields} : f.key = k).val]

\* ------------------------------------------------------------- errors
Err(type, message, issues) ==
  [type |-> type, message |-> message, issues |-> issues]
NoErr == Err("none", "", <<>>)
SyntaxError == Err("SyntaxError", "Unexpected token in JSON", <<>>)
\* What a strict-mode assignment to a property with a getter alone throws.
TypeError ==
  Err("TypeError",
      "Cannot set property sentiment of #<ReadOnlySentiment> which has only a getter",
      <<>>)

\* ------------------------------------------------------------- JSON.parse
RECURSIVE ParseValue(_, _)
RECURSIVE ParseItems(_, _, _)
RECURSIVE ParseMembers(_, _, _)

ParseFail == [ok |-> FALSE, v |-> UndefinedV, next |-> 0]
ParseOk(v, next) == [ok |-> TRUE, v |-> v, next |-> next]
IsPunct(toks, i, w) == i <= Len(toks) /\ toks[i] = P(w)

ParseValue(toks, i) ==
  IF i > Len(toks) THEN ParseFail
  ELSE LET tk == toks[i] IN
    CASE tk.c = "str" -> ParseOk(StrV(tk.inner), i + 1)
      [] tk.c = "num" -> ParseOk(NumV(tk.w), i + 1)
      [] tk.c = "word" ->
           IF tk.w \in {"true", "false"} THEN ParseOk(BoolV(tk.w), i + 1)
           ELSE IF tk.w = "null" THEN ParseOk(NullV, i + 1)
           ELSE ParseFail
      [] tk = P("[") ->
           IF IsPunct(toks, i + 1, "]") THEN ParseOk(ArrV(<<>>), i + 2)
           ELSE ParseItems(toks, i + 1, <<>>)
      [] tk = P("{") ->
           IF IsPunct(toks, i + 1, "}") THEN ParseOk(ObjV(<<>>), i + 2)
           ELSE ParseMembers(toks, i + 1, <<>>)
      [] OTHER -> ParseFail

ParseItems(toks, i, acc) ==
  LET r == ParseValue(toks, i) IN
  IF ~r.ok THEN ParseFail
  ELSE IF IsPunct(toks, r.next, ",")
       THEN ParseItems(toks, r.next + 1, Append(acc, r.v))
  ELSE IF IsPunct(toks, r.next, "]")
       THEN ParseOk(ArrV(Append(acc, r.v)), r.next + 1)
  ELSE ParseFail

ParseMembers(toks, i, acc) ==
  IF ~(i <= Len(toks) /\ toks[i].c = "str" /\ IsPunct(toks, i + 1, ":"))
  THEN ParseFail
  ELSE LET r == ParseValue(toks, i + 2) IN
    IF ~r.ok THEN ParseFail
    ELSE LET grown == SetField(acc, toks[i].inner, r.v) IN
      IF IsPunct(toks, r.next, ",")
      THEN ParseMembers(toks, r.next + 1, grown)
      ELSE IF IsPunct(toks, r.next, "}")
           THEN ParseOk(ObjV(grown), r.next + 1)
      ELSE ParseFail

\* JSON.parse(text): the value, or a SyntaxError.
JSONParse(chars) ==
  LET r == ParseValue(chars, 1) IN
  IF r.ok /\ r.next = Len(chars) + 1
  THEN [ok |-> TRUE, v |-> r.v, error |-> NoErr]
  ELSE [ok |-> FALSE, v |-> UndefinedV, error |-> SyntaxError]

\* ------------------------------------------------------------- objects
\* An object with a prototype: [proto, fields]. Prototypes are named.
ClassProto == "sentimentObject.prototype"
ObjectProto == "Object.prototype"
InputProto == "a value of the input"
NullProto == "null"
Inst(proto, fields) == [proto |-> proto, fields |-> fields]

\* A plain object in place of one with the class's prototype.
ObjectCreatePlain(proto) == Inst(ObjectProto, <<>>)

\* Object.create(classType.prototype)
ObjectCreate(proto) == Inst(proto, <<>>)

\* The array index i (from 0) as a property key.
IndexKey(i) == Digits(ToString(i))

\* target[key] = v, as Object.assign performs it ([[Set]]): the key
\* "__proto__" reaches the accessor inherited from Object.prototype, which
\* replaces the prototype by an object or null and ignores anything else;
\* every other key becomes an own property.
PutProperty(target, k, v) ==
  IF k = Chars("__proto__") /\ target.proto # NullProto
  THEN IF v.t \in {"object", "array"} THEN Inst(InputProto, target.fields)
       ELSE IF v.t = "null" THEN Inst(NullProto, target.fields)
       ELSE target
  ELSE Inst(target.proto, SetField(target.fields, k, v))

\* The own enumerable properties of ToObject(source), in order: none for
\* null, undefined, a number or a boolean; the indexed elements of an array;
\* the indexed characters of a string (one lexeme standing for its
\* characters).
OwnProperties(source) ==
  CASE source.t = "object" -> source.fields
    [] source.t = "array" ->
         [i \in DOMAIN source.items |-> Field(IndexKey(i - 1), source.items[i])]
    [] source.t = "string" ->
         [i \in DOMAIN source.txt |->
            Field(IndexKey(i - 1), StrV(<<source.txt[i]>>))]
    [] OTHER -> <<>>

RECURSIVE AssignFrom(_, _, _)
AssignFrom(target, props, i) ==
  IF i > Len(props) THEN target
  ELSE AssignFrom(PutProperty(target, props[i].key, props[i].val), props, i + 1)

\* Object.assign(target, source)
ObjectAssign(target, source) == AssignFrom(target, OwnProperties(source), 1)

\* The classes a caller passes as classType: the repository's, and one whose
\* prototype defines sentiment by a getter alone.
ReadOnlyProto == "ReadOnlySentiment.prototype"
Classes == {"sentimentObject", "ReadOnlySentiment"}
\* classType.prototype
PrototypeOf(c) == IF c = "sentimentObject" THEN ClassProto ELSE ReadOnlyProto

\* target[k] = v can be done: not for an accessor without a setter that the
\* target inherits.
Settable(target, k) ==
  ~(target.proto = ReadOnlyProto /\ k = Chars("sentiment"))

RECURSIVE FirstUnsettable(_, _, _)
\* The first of the i-th and later properties that Object.assign cannot set
\* on the target, where it throws a TypeError; 0 when it sets them all.
FirstUnsettable(target, props, i) ==
  IF i > Len(props) THEN 0
  ELSE IF ~Settable(target, props[i].key) THEN i
  ELSE FirstUnsettable(PutProperty(target, props[i].key, props[i].val),
                       props, i + 1)

\* ------------------------------------------------------------- validator
\* The first word alone.
JoinFirst(words, sep) == IF words = <<>> THEN "" ELSE words[1]

RECURSIVE Join(_, _)
\* Array.prototype.join
Join(words, sep) ==
  IF words = <<>> THEN ""
  ELSE IF Len(words) = 1 THEN words[1]
  ELSE words[1] \o sep \o Join(Tail(words), sep)

\* The two Sets of SentimentObjectValidator, in insertion order.
InitialSentiments == <<"positive", "negative", "neutral">>
InitialUrgencies == <<"high", "medium", "low">>

\* Set.prototype.has, for a value already known to be a string
SetHas(set, v) == \E i \in DOMAIN set : v.txt = Chars(set[i])

Thrown(error) == [ok |-> FALSE, fields |-> <<>>, error |-> error]
Passed(fields) == [ok |-> TRUE, fields |-> fields, error |-> NoErr]

\* validate checking urgency before sentiment.
ValidateUrgencyFirst(sentiments, urgencies, obj) ==
  IF TypeOf(obj) # "object" \/ obj.t = "null"
  THEN Thrown(Err("Error", "Input must be an object", <<>>))
  ELSE LET sentiment == Get(obj, Chars("sentiment"))
           urgency == Get(obj, Chars("urgency"))
       IN
    IF TypeOf(urgency) # "string"
    THEN Thrown(Err("Error", "urgency must be a string", <<>>))
    ELSE IF ~SetHas(urgencies, urgency)
    THEN Thrown(Err("Error",
           "urgency must be one of: " \o Join(urgencies, ", "), <<>>))
    ELSE IF TypeOf(sentiment) # "string"
    THEN Thrown(Err("Error", "sentiment must be a string", <<>>))
    ELSE IF ~SetHas(sentiments, sentiment)
    THEN Thrown(Err("Error",
           "sentiment must be one of: " \o Join(sentiments, ", "), <<>>))
    ELSE Passed(<<Field(Chars("sentiment"), sentiment),
                  Field(Chars("urgency"), urgency)>>)

\* validate with an error of its own for an absent field.
ValidateRequiring(sentiments, urgencies, obj) ==
  IF TypeOf(obj) # "object" \/ obj.t = "null"
  THEN Thrown(Err("Error", "Input must be an object", <<>>))
  ELSE LET sentiment == Get(obj, Chars("sentiment"))
           urgency == Get(obj, Chars("urgency"))
       IN
    IF sentiment = UndefinedV
    THEN Thrown(Err("Error", "sentiment is required", <<>>))
    ELSE IF TypeOf(sentiment) # "string"
    THEN Thrown(Err("Error", "sentiment must be a string", <<>>))
    ELSE IF ~SetHas(sentiments, sentiment)
    THEN Thrown(Err("Error",
           "sentiment must be one of: " \o Join(sentiments, ", "), <<>>))
    ELSE IF urgency = UndefinedV
    THEN Thrown(Err("Error", "urgency is required", <<>>))
    ELSE IF TypeOf(urgency) # "string"
    THEN Thrown(Err("Error", "urgency must be a string", <<>>))
    ELSE IF ~SetHas(urgencies, urgency)
    THEN Thrown(Err("Error",
           "urgency must be one of: " \o Join(urgencies, ", "), <<>>))
    ELSE Passed(<<Field(Chars("sentiment"), sentiment),
                  Field(Chars("urgency"), urgency)>>)

\* validate returning the record it was given (return record).
ValidateReturningInput(sentiments, urgencies, obj) ==
  IF TypeOf(obj) # "object" \/ obj.t = "null"
  THEN Thrown(Err("Error", "Input must be an object", <<>>))
  ELSE LET sentiment == Get(obj, Chars("sentiment"))
           urgency == Get(obj, Chars("urgency"))
       IN
    IF TypeOf(sentiment) # "string"
    THEN Thrown(Err("Error", "sentiment must be a string", <<>>))
    ELSE IF ~SetHas(sentiments, sentiment)
    THEN Thrown(Err("Error",
           "sentiment must be one of: " \o Join(sentiments, ", "), <<>>))
    ELSE IF TypeOf(urgency) # "string"
    THEN Thrown(Err("Error", "urgency must be a string", <<>>))
    ELSE IF ~SetHas(urgencies, urgency)
    THEN Thrown(Err("Error",
           "urgency must be one of: " \o Join(urgencies, ", "), <<>>))
    ELSE Passed(obj.fields)

\* SentimentObjectValidator.validate(obj), with the validator's two Sets
Validate(sentiments, urgencies, obj) ==
  IF TypeOf(obj) # "object" \/ obj.t = "null"
  THEN Thrown(Err("Error", "Input must be an object", <<>>))
  ELSE LET sentiment == Get(obj, Chars("sentiment"))
           urgency == Get(obj, Chars("urgency"))
       IN
    IF TypeOf(sentiment) # "string"
    THEN Thrown(Err("Error", "sentiment must be a string", <<>>))
    ELSE IF ~SetHas(sentiments, sentiment)
    THEN Thrown(Err("Error",
           "sentiment must be one of: " \o Join(sentiments, ", "), <<>>))
    ELSE IF TypeOf(urgency) # "string"
    THEN Thrown(Err("Error", "urgency must be a string", <<>>))
    ELSE IF ~SetHas(urgencies, urgency)
    THEN Thrown(Err("Error",
           "urgency must be one of: " \o Join(urgencies, ", "), <<>>))
    ELSE Passed(<<Field(Chars("sentiment"), sentiment),
                  Field(Chars("urgency"), urgency)>>)

\* ------------------------------------------------------------- schema
\* sentimentObjectSchema: z.object of two z.enum fields, in shape order.
sentimentObjectSchema ==
  << [key |-> "sentiment", options |-> <<"positive", "negative", "neutral">>,
      message |-> "sentiment must be 'positive', 'negative', or 'neutral'"],
     [key |-> "urgency", options |-> <<"high", "medium", "low">>,
      message |-> "urgency must be 'high', 'medium', or 'low'"] >>

Issue(code, path, message) == [code |-> code, path |-> path, message |-> message]

\* z.enum(options).safeParse(v): a string among the options
EnumAccepts(entry, v) == v.t = "string" /\ SetHas(entry.options, v)

\* The first failing field's issue alone.
SelectFirstIssue(schema, obj, i) ==
  LET bad == {j \in i..Len(schema) :
                ~EnumAccepts(schema[j], Get(obj, Chars(schema[j].key)))}
  IN IF bad = {} THEN <<>>
     ELSE LET j == CHOOSE k \in bad : \A l \in bad : k <= l
          IN <<Issue("invalid_value", <<schema[j].key>>, schema[j].message)>>

RECURSIVE SelectIssues(_, _, _)
\* The issues of the shape's fields from the i-th on, in shape order.
SelectIssues(schema, obj, i) ==
  IF i > Len(schema) THEN <<>>
  ELSE LET v == Get(obj, Chars(schema[i].key))
           rest == SelectIssues(schema, obj, i + 1)
       IN IF EnumAccepts(schema[i], v) THEN rest
          ELSE <<Issue("invalid_value", <<schema[i].key>>, schema[i].message)>>
               \o rest

ZodError(issues) ==
  Err("ZodError", Join([i \in DOMAIN issues |-> issues[i].message], "; "), issues)

\* safeParse of a schema that lets unknown keys through (z.looseObject).
SchemaSafeParseLoose(schema, obj) ==
  IF obj.t # "object"
  THEN Thrown(ZodError(<<Issue("invalid_type", <<>>,
                                "Invalid input: expected object")>>))
  ELSE LET issues == SelectIssues(schema, obj, 1) IN
    IF issues # <<>> THEN Thrown(ZodError(issues)) ELSE Passed(obj.fields)

\* schema.safeParse(obj): every issue found, or the recognized fields alone
\* (z.object strips unknown keys).
SchemaSafeParse(schema, obj) ==
  IF obj.t # "object"
  THEN Thrown(ZodError(<<Issue("invalid_type", <<>>,
                                "Invalid input: expected object")>>))
  ELSE LET issues == SelectIssues(schema, obj, 1) IN
    IF issues # <<>> THEN Thrown(ZodError(issues))
    ELSE Passed([i \in DOMAIN schema |->
                   Field(Chars(schema[i].key), Get(obj, Chars(schema[i].key)))])

\* A schema a caller passes: the shape of its fields and its refinement,
\* "none" or "throws" (a check that raises an exception of its own).
Schema(shape, refinement) == [shape |-> shape, refinement |-> refinement]
Schemas ==
  {Schema(sentimentObjectSchema, "none"), Schema(sentimentObjectSchema, "throws")}
RefinementError == Err("Error", "refinement failed", <<>>)
\* schema.parse(obj) and schema.safeParse(obj) raise the refinement's
\* exception: a refinement runs once the fields have passed.
SchemaRaises(s, obj) ==
  s.refinement = "throws" /\ SchemaSafeParse(s.shape, obj).ok

\* ------------------------------------------------------------- inputs
RECURSIVE Stringify(_)
RECURSIVE StringifyAll(_, _, _)
\* The texts of the i-th and later entries, separated by commas; an entry is
\* an array element or, with keyed, an object member.
StringifyAll(entries, keyed, i) ==
  IF i > Len(entries) THEN <<>>
  ELSE (IF i > 1 THEN <<P(",")>> ELSE <<>>)
       \o (IF keyed
           THEN <<StrTok(entries[i].key), P(":")>> \o Stringify(entries[i].val)
           ELSE Stringify(entries[i]))
       \o StringifyAll(entries, keyed, i + 1)

\* JSON.stringify(v): the JSON-text encoding of a structural value.
Stringify(v) ==
  CASE v.t = "string" -> <<StrTok(v.txt)>>
    [] v.t = "object" -> <<P("{")>> \o StringifyAll(v.fields, TRUE, 1) \o <<P("}")>>
    [] v.t = "array" -> <<P("[")>> \o StringifyAll(v.items, FALSE, 1) \o <<P("]")>>
    [] OTHER -> v.txt

\* The longest array among the inputs.
MaxLen == 2

Word(w) == StrV(Chars(w))
SentimentChoices ==
  {Word(w) : w \in {"positive", "negative", "neutral", "happy"}}
    \cup {NumV("123"), UndefinedV}
UrgencyChoices ==
  {Word(w) : w \in {"high", "medium", "low", "urgent"}}
    \cup {BoolV("true"), UndefinedV}
ProtoValues == {ObjV(<<>>), NullV, Word("x")}
ExtraChoices ==
  { <<>>, <<Field(Chars("extra"), Word("value"))>> }
    \cup {<<Field(Chars("__proto__"), v)>> : v \in ProtoValues}

\* A field list holding key unless the value is undefined (absent).
Opt(k, v) == IF v = UndefinedV THEN <<>> ELSE <<Field(Chars(k), v)>>
Mapping(s, u, x, swap) ==
  ObjV((IF swap THEN Opt("urgency", u) \o Opt("sentiment", s)
        ELSE Opt("sentiment", s) \o Opt("urgency", u)) \o x)
Mappings ==
  {Mapping(s, u, x, swap) : s \in SentimentChoices, u \in UrgencyChoices,
                            x \in ExtraChoices, swap \in BOOLEAN}

\* A valid mapping: exactly the recognized fields, with in-domain values.
ValidMappings ==
  {Mapping(Word(s), Word(u), <<>>, swap) :
     s \in {"positive", "negative", "neutral"},
     u \in {"high", "medium", "low"}, swap \in BOOLEAN}

Elements ==
  { Mapping(Word("positive"), Word("high"), <<>>, FALSE),
    Mapping(Word("neutral"), Word("medium"), <<>>, TRUE),
    Mapping(Word("bad"), Word("medium"), <<>>, FALSE),
    StrV(Stringify(Mapping(Word("negative"), Word("low"), <<>>, FALSE))),
    Word("oops"),
    NumV("5") }

SeqsUpTo(S, n) == UNION {[1..k -> S] : k \in 0..n}
Arrays == {ArrV(items) : items \in SeqsUpTo(Elements, MaxLen)}
Scalars == {NumV("5"), BoolV("true"), NullV}
Structural == Mappings \cup Arrays \cup Scalars

\* Texts that are not JSON, and one with a repeated key.
Malformed ==
  { StrV(<<P("{"), Tok("word", "invalid"), Tok("word", "json"), P("}")>>),
    StrV(<<>>),
    StrV(<<P("[")>>),
    StrV(<<P("["), Tok("num", "5"), P(","), P("]")>>),
    StrV(<<P("{"), StrTok(Chars("sentiment")), P(":"), P("}")>>) }
RepeatedKey ==
  StrV(<<P("{"), StrTok(Chars("sentiment")), P(":"), StrTok(Chars("happy")),
         P(","), StrTok(Chars("urgency")), P(":"), StrTok(Chars("high")),
         P(","), StrTok(Chars("sentiment")), P(":"), StrTok(Chars("positive")),
         P("}")>>)
Texts ==
  {StrV(Stringify(v)) : v \in Structural \cup {Word("abc")}}
    \cup Malformed \cup {RepeatedKey}
Inputs == Structural \cup Texts

SingleForms ==
  {"deserialize", "deserializeWithValidation", "deserializeWithZod",
   "deserializeWithZodSafe"}
ArrayForms == {"deserializeArray", "deserializeArrayWithZod"}
Functions == SingleForms \cup ArrayForms \cup {"validate"}

\* The three strategies, and the one each exported function belongs to.
Families == {"plain", "validator", "schema"}
Family(f) ==
  CASE f \in {"deserialize", "deserializeArray"} -> "plain"
    [] f \in {"deserializeWithValidation", "validate"} -> "validator"
    [] OTHER -> "schema"

\* Every array form mapping the validator form.
ElementFormValidated(f) == "deserializeWithValidation"

\* Every array form mapping the plain single-object form.
ElementFormPlain(f) == "deserialize"

\* The single-object form an array form maps over its elements.
ElementForm(f) ==
  IF f = "deserializeArray" THEN "deserialize" ELSE "deserializeWithZod"

\* ------------------------------------------------------------- state
VARIABLES
  validSentiments, validUrgencies, \* the validator's two Sets
  fn, arg,               \* the function called ("none": no call) and its input
  classType, schema,     \* the class and the schema it is called with
  apc, arr, idx, out,    \* the array form: position, arr, map's index and output
  spc, sfn, jsonObject,  \* the single-object form: position, function, input
  obj, validatedObj, instance, \* and its locals
  result,                \* what the call returned or threw
  trace                  \* the steps the call has taken, oldest first

validator == <<validSentiments, validUrgencies>>
call == <<fn, arg, classType, schema>>
aframe == <<arr, idx, out>>
sframe == <<sfn, jsonObject, obj, validatedObj, instance>>
vars == <<validator, call, apc, aframe, spc, sframe, result, trace>>

NoInst == Inst("none", <<>>)
Outcome(status, shape, success, data, error) ==
  [status |-> status, shape |-> shape, success |-> success, data |-> data,
   error |-> error]
NoResult == Outcome("none", "none", FALSE, <<>>, NoErr)
ThrownResult(error) == Outcome("thrown", "none", FALSE, <<>>, error)

\* A step of the call: what was done, for which element (0: the input
\* itself), and whether it succeeded.
Ev(e, i, ok) == [e |-> e, i |-> i, ok |-> ok]
\* The element the single-object form is working on.
Cur == IF apc = "item" THEN idx ELSE 0

Init ==
  /\ validSentiments = InitialSentiments
  /\ validUrgencies = InitialUrgencies
  /\ fn = "none" /\ arg = UndefinedV
  /\ classType = "sentimentObject"
  /\ schema = Schema(sentimentObjectSchema, "none")
  /\ apc = "none" /\ arr = UndefinedV /\ idx = 0 /\ out = <<>>
  /\ spc = "none" /\ sfn = "none" /\ jsonObject = UndefinedV
  /\ obj = UndefinedV /\ validatedObj = UndefinedV /\ instance = NoInst
  /\ result = NoResult
  /\ trace = <<>>

\* The input taken as it is, text or not.
ParserPassThrough(x) == [ok |-> TRUE, v |-> x, error |-> NoErr]

\* typeof x === 'string' ? JSON.parse(x) : x
Parser(x) ==
  IF TypeOf(x) = "string" THEN JSONParse(x.txt)
  ELSE [ok |-> TRUE, v |-> x, error |-> NoErr]

\* catch (error) { throw new Error(`Failed to parse JSON: ${error}`) }
Wrapped(error) ==
  Err("Error", "Failed to parse JSON: " \o error.type \o ": " \o error.message,
      <<>>)

\* The non-throwing form handing the parse error back as a failed outcome.
ParseFailureReturned(f, error) ==
  IF f = "deserializeWithZodSafe"
  THEN Outcome("returned", "outcome", FALSE, <<>>, error)
  ELSE ThrownResult(error)

\* What form f does when JSON.parse throws: only the non-throwing schema
\* form has a catch block.
ParseFailure(f, error) ==
  ThrownResult(IF f = "deserializeWithZodSafe" THEN Wrapped(error) ELSE error)

\* The catch block rethrowing only what JSON.parse threw in a wrapper.
RethrownParseOnly(f, error) ==
  ThrownResult(IF f = "deserializeWithZodSafe" /\ error.type = "SyntaxError"
               THEN Wrapped(error) ELSE error)

\* What form f does with an exception raised in its body: the non-throwing
\* schema form catches whatever its try block raises and throws the
\* wrapper, the other forms let it pass.
Rethrown(f, error) ==
  ThrownResult(IF f = "deserializeWithZodSafe" THEN Wrapped(error) ELSE error)

\* Every form throwing the validation's error.
ValidationFailureThrown(f, error) == ThrownResult(error)

\* What form f does when validation fails: validate and schema.parse throw,
\* safeParse's failure is returned as data.
ValidationFailure(f, error) ==
  IF f = "deserializeWithZodSafe"
  THEN Outcome("returned", "outcome", FALSE, <<>>, error)
  ELSE ThrownResult(error)

\* return instance / return { success: true, data: instance }
Returned(f, inst) ==
  IF f = "deserializeWithZodSafe"
  THEN Outcome("returned", "outcome", TRUE, <<inst>>, NoErr)
  ELSE Outcome("returned", "instance", TRUE, <<inst>>, NoErr)

\* Every form instantiating at once.
AfterParseUnchecked(f) == "create"

\* The step after a successful parse: only the plain form instantiates at
\* once.
AfterParse(f) == IF f = "deserialize" THEN "create" ELSE "validate"

\* validator.validate(obj), schema.parse(obj) or schema.safeParse(obj)
Validation(f, o) ==
  IF f \in {"deserializeWithValidation", "validate"}
  THEN Validate(validSentiments, validUrgencies, o)
  ELSE SchemaSafeParse(schema.shape, o)

\* The image put in front of the earlier ones.
CollectInFront(sofar, inst) == <<inst>> \o sofar

\* map's output with one more element's image
Collect(sofar, inst) == Append(sofar, inst)

\* ------------------------------------------------------------- functions
\* Each exported function as a whole: its outcome on an input.
Instantiate(source) == ObjectAssign(ObjectCreate(ClassProto), source)

deserialize(input) ==
  LET p == Parser(input) IN
  IF ~p.ok THEN ParseFailure("deserialize", p.error)
  ELSE Returned("deserialize", Instantiate(p.v))

\* The forms that validate between parsing and instantiating.
Validated(f, input) ==
  LET p == Parser(input) IN
  IF ~p.ok THEN ParseFailure(f, p.error)
  ELSE LET r == Validation(f, p.v) IN
    IF ~r.ok THEN ValidationFailure(f, r.error)
    ELSE Returned(f, Instantiate(ObjV(r.fields)))

deserializeWithValidation(input) ==
  Validated("deserializeWithValidation", input)
deserializeWithZod(input) == Validated("deserializeWithZod", input)
deserializeWithZodSafe(input) ==
  Validated("deserializeWithZodSafe", input)

\* validator.validate(obj), called by itself
validate(o) ==
  LET r == Validation("validate", o) IN
  IF ~r.ok THEN ThrownResult(r.error)
  ELSE Outcome("returned", "mapping", TRUE, <<Inst(ObjectProto, r.fields)>>,
               NoErr)

Single(f, v) ==
  CASE f = "deserialize" -> deserialize(v)
    [] f = "deserializeWithValidation" -> deserializeWithValidation(v)
    [] f = "deserializeWithZod" -> deserializeWithZod(v)
    [] f = "deserializeWithZodSafe" -> deserializeWithZodSafe(v)
    [] f = "validate" -> validate(v)

RECURSIVE MapFrom(_, _, _, _)
\* arr.map(item => f(item)) from the i-th element on: the first exception
\* leaves map.
MapFrom(f, items, i, sofar) ==
  IF i > Len(items) THEN Outcome("returned", "instances", TRUE, sofar, NoErr)
  ELSE LET r == Single(f, items[i]) IN
    IF r.status = "thrown" THEN r
    ELSE MapFrom(f, items, i + 1, Collect(sofar, r.data[1]))

ArrayOf(f, input) ==
  LET p == Parser(input) IN
  IF ~p.ok THEN ThrownResult(p.error)
  ELSE IF ~IsArray(p.v)
  THEN ThrownResult(Err("Error", "Input must be an array", <<>>))
  ELSE MapFrom(ElementForm(f), p.v.items, 1, <<>>)

deserializeArray(input) == ArrayOf("deserializeArray", input)
deserializeArrayWithZod(input) ==
  ArrayOf("deserializeArrayWithZod", input)

\* The outcome of calling function f on input v.
Run(f, v) ==
  CASE f = "deserializeArray" -> deserializeArray(v)
    [] f = "deserializeArrayWithZod" -> deserializeArrayWithZod(v)
    [] OTHER -> Single(f, v)

\* ------------------------------------------------------------- steps
\* The same functions one statement at a time.
\* The call ends with r; both forms are left.
Finish(r) == result' = r /\ apc' = "none" /\ spc' = "none"

\* A caller invokes one of the functions on an input, with a class and a
\* schema.
CallWith(f, v, c, s) ==
  /\ fn = "none"
  /\ fn' = f /\ arg' = v /\ classType' = c /\ schema' = s
  /\ IF f \in ArrayForms
     THEN /\ apc' = "parse" /\ spc' = "none"
          /\ UNCHANGED <<sfn, jsonObject, obj>>
     ELSE /\ apc' = "none" /\ sfn' = f /\ jsonObject' = v
          /\ spc' = IF f = "validate" THEN "validate" ELSE "parse"
          /\ obj' = IF f = "validate" THEN v ELSE UndefinedV
  /\ UNCHANGED <<validator, aframe, validatedObj, instance, result, trace>>

\* The call with the repository's class and schema.
Call(f, v) ==
  CallWith(f, v, "sentimentObject", Schema(sentimentObjectSchema, "none"))

\* deserializeArray, deserializeArrayWithZod: const arr = ... JSON.parse ...
ArrayParse ==
  /\ apc = "parse"
  /\ LET p == Parser(arg) IN
       /\ trace' = Append(trace, Ev("parse", 0, p.ok))
       /\ IF p.ok
          THEN arr' = p.v /\ apc' = "check" /\ UNCHANGED <<spc, result>>
          ELSE Finish(ThrownResult(p.error)) /\ UNCHANGED arr
  /\ UNCHANGED <<validator, call, idx, out, sframe>>

\* if (!Array.isArray(arr)) throw new Error('Input must be an array')
ArrayCheck ==
  /\ apc = "check"
  /\ trace' = Append(trace, Ev("check", 0, IsArray(arr)))
  /\ IF IsArray(arr)
     THEN apc' = "map" /\ idx' = 1 /\ out' = <<>> /\ UNCHANGED <<spc, result>>
     ELSE /\ Finish(ThrownResult(Err("Error", "Input must be an array", <<>>)))
          /\ UNCHANGED <<idx, out>>
  /\ UNCHANGED <<validator, call, arr, sframe>>

\* arr.map(item => ...): the next element enters the single-object form, or
\* the mapped array is returned.
ArrayMap ==
  /\ apc = "map"
  /\ IF idx <= Len(arr.items)
     THEN /\ apc' = "item" /\ spc' = "parse"
          /\ sfn' = ElementForm(fn) /\ jsonObject' = arr.items[idx]
          /\ obj' = UndefinedV /\ validatedObj' = UndefinedV
          /\ instance' = NoInst
          /\ UNCHANGED result
     ELSE /\ Finish(Outcome("returned", "instances", TRUE, out, NoErr))
          /\ UNCHANGED sframe
  /\ UNCHANGED <<validator, call, aframe, trace>>

\* const obj = typeof jsonObject === 'string' ? JSON.parse(jsonObject) : ...
SingleParse ==
  /\ spc = "parse"
  /\ LET p == Parser(jsonObject) IN
       /\ trace' = Append(trace, Ev("parse", Cur, p.ok))
       /\ IF p.ok
          THEN /\ obj' = p.v
               /\ spc' = AfterParse(sfn)
               /\ UNCHANGED <<apc, result>>
          ELSE /\ Finish(ParseFailure(sfn, p.error))
               /\ UNCHANGED obj
  /\ UNCHANGED <<validator, call, aframe, sfn, jsonObject, validatedObj,
                 instance>>

\* validate testing membership with Set.delete, which removes what it finds.
SingleValidateDeleting ==
  /\ spc = "validate"
  /\ LET r == Validation(sfn, obj) IN
       /\ trace' = Append(trace, Ev("validate", Cur, r.ok))
       /\ IF ~r.ok
          THEN /\ Finish(ValidationFailure(sfn, r.error))
               /\ UNCHANGED validatedObj
          ELSE IF sfn = "validate"
          THEN /\ Finish(Outcome("returned", "mapping", TRUE,
                                 <<Inst(ObjectProto, r.fields)>>, NoErr))
               /\ UNCHANGED validatedObj
          ELSE /\ validatedObj' = ObjV(r.fields) /\ spc' = "create"
               /\ UNCHANGED <<apc, result>>
  /\ validSentiments' =
       IF sfn \in {"validate", "deserializeWithValidation"}
       THEN SelectSeq(validSentiments,
                      LAMBDA w : Chars(w) # Get(obj, Chars("sentiment")).txt)
       ELSE validSentiments
  /\ UNCHANGED <<validUrgencies, call, aframe, sfn, jsonObject, obj, instance>>

\* validator.validate(obj) / schema.parse(obj) / schema.safeParse(obj)
SingleValidate ==
  /\ spc = "validate"
  /\ LET r == Validation(sfn, obj) IN
       /\ trace' = Append(trace, Ev("validate", Cur,
                                    r.ok /\ ~SchemaRaises(schema, obj)))
       /\ IF Family(sfn) = "schema" /\ SchemaRaises(schema, obj)
          THEN /\ Finish(Rethrown(sfn, RefinementError))
               /\ UNCHANGED validatedObj
          ELSE IF ~r.ok
          THEN /\ Finish(ValidationFailure(sfn, r.error))
               /\ UNCHANGED validatedObj
          ELSE IF sfn = "validate"
          THEN /\ Finish(Outcome("returned", "mapping", TRUE,
                                 <<Inst(ObjectProto, r.fields)>>, NoErr))
               /\ UNCHANGED validatedObj
          ELSE /\ validatedObj' = ObjV(r.fields) /\ spc' = "create"
               /\ UNCHANGED <<apc, result>>
  /\ UNCHANGED <<validator, call, aframe, sfn, jsonObject, obj, instance>>

\* const instance = Object.create(classType.prototype)
SingleCreate ==
  /\ spc = "create"
  /\ instance' = ObjectCreate(PrototypeOf(classType))
  /\ spc' = "assign"
  /\ trace' = Append(trace, Ev("create", Cur, TRUE))
  /\ UNCHANGED <<validator, call, apc, aframe, sfn, jsonObject, obj,
                 validatedObj, result>>

\* The mapping whose properties the instance takes.
Source == IF sfn = "deserialize" THEN obj ELSE validatedObj

\* Object.assign(instance, obj) / Object.assign(instance, validatedObj)
SingleAssign ==
  /\ spc = "assign"
  /\ LET props == OwnProperties(Source)
         j == FirstUnsettable(instance, props, 1)
     IN /\ trace' = Append(trace, Ev("assign", Cur, j = 0))
        /\ IF j = 0
           THEN /\ instance' = ObjectAssign(instance, Source)
                /\ spc' = "return"
                /\ UNCHANGED <<apc, result>>
           ELSE /\ instance' = AssignFrom(instance, SubSeq(props, 1, j - 1), 1)
                /\ Finish(Rethrown(sfn, TypeError))
  /\ UNCHANGED <<validator, call, aframe, sfn, jsonObject, obj, validatedObj>>

\* return instance: to the caller, or to map as the element's image.
SingleReturn ==
  /\ spc = "return"
  /\ IF apc = "item"
     THEN /\ out' = Collect(out, instance) /\ idx' = idx + 1
          /\ apc' = "map" /\ spc' = "none"
          /\ UNCHANGED result
     ELSE /\ Finish(Returned(sfn, instance))
          /\ UNCHANGED <<idx, out>>
  /\ UNCHANGED <<validator, call, arr, sframe, trace>>

\* The caller has its result; the next call may start.
Reset ==
  /\ result.status # "none"
  /\ fn' = "none" /\ arg' = UndefinedV
  /\ classType' = "sentimentObject"
  /\ schema' = Schema(sentimentObjectSchema, "none")
  /\ apc' = "none" /\ arr' = UndefinedV /\ idx' = 0 /\ out' = <<>>
  /\ spc' = "none" /\ sfn' = "none" /\ jsonObject' = UndefinedV
  /\ obj' = UndefinedV /\ validatedObj' = UndefinedV /\ instance' = NoInst
  /\ result' = NoResult
  /\ trace' = <<>>
  /\ UNCHANGED validator

Next ==
  \/ \E f \in Functions, v \in Inputs : Call(f, v)
  \/ ArrayParse
  \/ ArrayCheck
  \/ ArrayMap
  \/ SingleParse
  \/ SingleValidate
  \/ SingleCreate
  \/ SingleAssign
  \/ SingleReturn
  \/ Reset

Spec == Init /\ [][Next]_vars

\* The functions are generic in the class and in the schema: the calls with
\* any class and any schema a caller may pass. A function without a schema
\* parameter, and validate, which takes no class, are called as before. An
\* array form is given sequences or malformed text, the others mappings,
\* scalars and text.
InputsOf(f) ==
  IF f \in ArrayForms THEN Arrays \cup Malformed
  ELSE Mappings \cup Scalars \cup Malformed
         \cup {StrV(Stringify(v)) : v \in Mappings \cup Scalars}

NextAny ==
  \/ \E f \in Functions :
       \E v \in InputsOf(f),
          c \in IF f = "validate" THEN {"sentimentObject"} ELSE Classes,
          s \in IF Family(f) = "schema" THEN Schemas
                ELSE {Schema(sentimentObjectSchema, "none")} :
         CallWith(f, v, c, s)
  \/ ArrayParse
  \/ ArrayCheck
  \/ ArrayMap
  \/ SingleParse
  \/ SingleValidate
  \/ SingleCreate
  \/ SingleAssign
  \/ SingleReturn
  \/ Reset

SpecAny == Init /\ [][NextAny]_vars

\* Taken one statement at a time, a call ends as the function as a whole
\* does.
StepsAgree == result.status # "none" => result = Run(fn, arg)

\* ------------------------------------------------------------- properties
ValidatedForms ==
  {"deserializeWithValidation", "deserializeWithZod", "deserializeWithZodSafe"}
LastStep == IF trace = <<>> THEN Ev("none", 0, TRUE) ELSE trace[Len(trace)]

\* C1: in the validator-based and schema-based forms an instance is created
\* and filled only after the validation of the same input has succeeded;
\* when validation fails no instance exists and the caller is handed none.
C1_InstantiationAfterValidation ==
  sfn \in ValidatedForms =>
    /\ \A j \in DOMAIN trace :
         trace[j].e \in {"create", "assign"} =>
           \E k \in 1..(j - 1) : trace[k] = Ev("validate", trace[j].i, TRUE)
    /\ instance # NoInst => validatedObj # UndefinedV
    /\ (LastStep.e = "validate" /\ ~LastStep.ok) =>
         /\ instance = NoInst
         /\ result.status # "none" /\ result.data = <<>>
         /\ \A j \in DOMAIN trace :
              trace[j].i = LastStep.i => trace[j].e \notin {"create", "assign"}

C1_Witness ==
  /\ fn = "deserializeWithZodSafe"
  /\ LastStep = Ev("validate", 0, FALSE)
  /\ result.status = "returned" /\ ~result.success /\ result.data = <<>>
  /\ instance = NoInst

\* C2: on a mapping holding exactly sentiment and urgency with in-domain
\* values, every single-object form returns one instance whose prototype is
\* the target type's and whose fields are the input's.
C2_ValidMappingInstantiated ==
  (fn \in SingleForms /\ arg \in ValidMappings /\ result.status # "none") =>
    /\ result.status = "returned" /\ result.success
    /\ Len(result.data) = 1
    /\ result.data[1].proto = ClassProto
    /\ AsMap(result.data[1].fields) = AsMap(arg.fields)

C2_Witness ==
  /\ fn = "deserializeWithZodSafe"
  /\ arg = Mapping(Word("neutral"), Word("low"), <<>>, TRUE)
  /\ result.status = "returned" /\ result.success
  /\ result.data[1].proto = ClassProto

\* C3: for a valid mapping, a single-object form called on the mapping's
\* JSON text ends as the same form called on the mapping itself.
C3_TextAsParsed ==
  (fn \in SingleForms /\ result.status # "none") =>
    /\ arg \in ValidMappings => result = Run(fn, StrV(Stringify(arg)))
    /\ \A m \in ValidMappings :
         arg = StrV(Stringify(m)) => result = Run(fn, m)

C3_Witness ==
  /\ fn = "deserializeWithValidation"
  /\ arg = StrV(Stringify(Mapping(Word("negative"), Word("low"), <<>>, FALSE)))
  /\ result.status = "returned"
  /\ AsMap(result.data[1].fields) =
       AsMap(Mapping(Word("negative"), Word("low"), <<>>, FALSE).fields)

\* An input as the caller may pass it: the value itself (a string is always
\* taken for text) or its JSON text.
Given(v) == IF v.t = "string" THEN {StrV(Stringify(v))} ELSE {v, StrV(Stringify(v))}
Keys(fields) == {fields[i].key : i \in DOMAIN fields}
ValidElements == Elements \cap ValidMappings
\* The single-object form each array form is written to map.
SingleOf(f) == IF f = "deserializeArray" THEN "deserialize" ELSE "deserializeWithZod"

\* C4: on a sequence of N >= 0 valid mappings, given as a value or as text,
\* an array form returns N instances, the i-th with the target prototype and
\* the fields of the i-th element; on the empty sequence, the empty sequence.
C4_ArrayInOrder ==
  (fn \in ArrayForms /\ result.status # "none") =>
    \A items \in SeqsUpTo(ValidElements, MaxLen) :
      arg \in Given(ArrV(items)) =>
        /\ result.status = "returned"
        /\ Len(result.data) = Len(items)
        /\ \A i \in DOMAIN items :
             /\ result.data[i].proto = ClassProto
             /\ AsMap(result.data[i].fields) = AsMap(items[i].fields)
             /\ result.data[i] = Single(SingleOf(fn), items[i]).data[1]

C4_Witness ==
  /\ fn = "deserializeArrayWithZod"
  /\ arg = ArrV(<<Mapping(Word("neutral"), Word("medium"), <<>>, TRUE),
                  Mapping(Word("positive"), Word("high"), <<>>, FALSE)>>)
  /\ result.status = "returned"
  /\ Len(result.data) = 2
  /\ Get(ObjV(result.data[1].fields), Chars("sentiment")) = Word("neutral")

\* The values that are not sequences: mappings, scalars, null.
NonSequences == Mappings \cup Scalars \cup {Word("abc")}
NotAnArray == ThrownResult(Err("Error", "Input must be an array", <<>>))

\* C5: on an input that is not a sequence (a mapping, a scalar or null, as
\* a value or as text) both array forms throw "Input must be an array", and
\* until then nothing but the parse and the check has run: no element has
\* entered the single-object form.
C5_NonSequenceRejected ==
  (fn \in ArrayForms /\ \E v \in NonSequences : arg \in Given(v)) =>
    /\ result.status # "none" => result = NotAnArray
    /\ \A j \in DOMAIN trace : trace[j].i = 0 /\ trace[j].e \in {"parse", "check"}
    /\ apc \in {"parse", "check", "none"} /\ spc = "none"
    /\ instance = NoInst /\ out = <<>>

C5_Witness ==
  /\ fn = "deserializeArrayWithZod"
  /\ arg = StrV(Stringify(NullV))
  /\ result = NotAnArray
  /\ trace = <<Ev("parse", 0, TRUE), Ev("check", 0, FALSE)>>

\* The elements on which the single-object form f throws.
Failing(f, items) == {i \in DOMAIN items : Single(f, items[i]).status = "thrown"}
Least(S) == CHOOSE i \in S : \A j \in S : i <= j

\* C6: an array form works through the elements in input order; when some
\* element fails, nothing is done for any later element and the call throws
\* the error of the first failing one, returning no instances.
C6_FirstFailureAborts ==
  (fn \in ArrayForms /\ IsArray(arr)) =>
    /\ \A j, k \in DOMAIN trace : j < k => trace[j].i <= trace[k].i
    /\ \A j \in DOMAIN trace : trace[j].i <= Len(arr.items)
    /\ LET failing == Failing(SingleOf(fn), arr.items) IN
         failing # {} =>
           /\ \A j \in DOMAIN trace : trace[j].i <= Least(failing)
           /\ Len(out) < Least(failing)
           /\ result.status # "none" =>
                /\ result =
                     ThrownResult(Single(SingleOf(fn), arr.items[Least(failing)]).error)
                /\ LastStep.i = Least(failing) /\ ~LastStep.ok

C6_Witness ==
  /\ fn = "deserializeArrayWithZod"
  /\ arg = ArrV(<<Mapping(Word("bad"), Word("medium"), <<>>, FALSE), NumV("5")>>)
  /\ result.status = "thrown"
  /\ result.error.type = "ZodError"
  /\ result.error.issues[1].path = <<"sentiment">>
  /\ \A j \in DOMAIN trace : trace[j].i <= 1

HandWritten == {"validate", "deserializeWithValidation"}
\* The validate step has been taken on obj.
ValidateDone == sfn \in HandWritten /\ LastStep.e = "validate"
InDomain(v, words) == v.t = "string" /\ \E w \in words : v.txt = Chars(w)
SentimentViolated(o) ==
  ~InDomain(Get(o, Chars("sentiment")), {"positive", "negative", "neutral"})
UrgencyViolated(o) ==
  ~InDomain(Get(o, Chars("urgency")), {"high", "medium", "low"})
SentimentMessages ==
  {"sentiment must be a string",
   "sentiment must be one of: positive, negative, neutral"}
UrgencyMessages ==
  {"urgency must be a string", "urgency must be one of: high, medium, low"}

\* C7: the hand-written validator raises one error, for the first violation
\* in the order sentiment, urgency: on a mapping whose sentiment is in
\* violation the error is about sentiment whatever urgency holds, and an
\* error about urgency is raised only when sentiment is valid.
C7_SentimentBeforeUrgency ==
  (ValidateDone /\ TypeOf(obj) = "object" /\ obj.t # "null") =>
    /\ SentimentViolated(obj) =>
         /\ result.status = "thrown"
         /\ result.error.type = "Error" /\ result.error.issues = <<>>
         /\ result.error.message \in SentimentMessages
    /\ (result.status = "thrown" /\ result.error.message \in UrgencyMessages) =>
         ~SentimentViolated(obj) /\ UrgencyViolated(obj)
    /\ (~SentimentViolated(obj) /\ UrgencyViolated(obj)) =>
         result.status = "thrown" /\ result.error.message \in UrgencyMessages

C7_Witness ==
  /\ sfn = "validate"
  /\ obj = Mapping(Word("happy"), Word("urgent"), <<>>, TRUE)
  /\ LastStep = Ev("validate", 0, FALSE)
  /\ result.status = "thrown"
  /\ result.error.message = "sentiment must be one of: positive, negative, neutral"

\* C8: on every input that is not a mapping (null, a number, a boolean, a
\* string, a sequence) the hand-written validator raises "Input must be an
\* object".
C8_NonMappingRejected ==
  (ValidateDone /\ obj.t # "object") =>
    result = ThrownResult(Err("Error", "Input must be an object", <<>>))

\* A valid mapping with one more field, and the field's key.
WithExtra(x) ==
  {Mapping(Word(s), Word(u), x, swap) :
     s \in {"positive", "negative", "neutral"},
     u \in {"high", "medium", "low"}, swap \in BOOLEAN}
ExtraField == <<Field(Chars("extra"), Word("value"))>>
ProtoField(v) == <<Field(Chars("__proto__"), v)>>
\* The prototype an instance of the class has after __proto__ = v.
ProtoAfter(v) ==
  IF v.t = "object" THEN InputProto ELSE IF v.t = "null" THEN NullProto
  ELSE ClassProto
Recognized == {Chars("sentiment"), Chars("urgency")}
\* A single-object form has returned an instance for input m.
ReturnedFor(m) ==
  /\ fn \in SingleForms /\ arg \in Given(m)
  /\ result.status = "returned" /\ result.success

C10_OnlyRecognizedFields ==
  (fn \in HandWritten /\ result.status = "returned") =>
    /\ Len(result.data) = 1
    /\ Keys(result.data[1].fields) = Recognized
    /\ \A k \in Recognized : AsMap(result.data[1].fields)[k] = Get(obj, k)
    /\ result.data[1].proto = IF fn = "validate" THEN ObjectProto ELSE ClassProto

C10_Witness ==
  /\ fn = "validate"
  /\ arg = Mapping(Word("neutral"), Word("medium"), ExtraField, TRUE)
  /\ result.status = "returned"
  /\ Keys(result.data[1].fields) = Recognized
  /\ Keys(arg.fields) # Recognized


SchemaForms == {"deserializeWithZod", "deserializeWithZodSafe"}
\* The schema has been applied to obj.
SchemaDone == sfn \in SchemaForms /\ LastStep.e = "validate"
\* The recognized fields of o that are absent, of the wrong primitive type or
\* outside their enumeration.
ViolatedFields(o) ==
  (IF SentimentViolated(o) THEN {"sentiment"} ELSE {})
    \cup (IF UrgencyViolated(o) THEN {"urgency"} ELSE {})
IssuePaths(error) == {error.issues[i].path : i \in DOMAIN error.issues}

\* C11: on a mapping that does not conform, the schema path's aggregate
\* error (thrown by deserializeWithZod and deserializeArrayWithZod, returned
\* by deserializeWithZodSafe) holds one violation for each recognized field
\* that is absent, of the wrong type or outside its enumeration, both when
\* both are bad, and none for any other field.
C11_AllViolationsReported ==
  (SchemaDone /\ obj.t = "object" /\ ViolatedFields(obj) # {}) =>
    /\ result.status = IF sfn = "deserializeWithZodSafe" THEN "returned"
                        ELSE "thrown"
    /\ ~result.success /\ result.data = <<>>
    /\ result.error.type = "ZodError"
    /\ IssuePaths(result.error) = {<<k>> : k \in ViolatedFields(obj)}
    /\ Len(result.error.issues) = Cardinality(ViolatedFields(obj))

C11_Witness ==
  /\ sfn = "deserializeWithZodSafe"
  /\ obj = Mapping(NumV("123"), UndefinedV, ExtraField, FALSE)
  /\ LastStep = Ev("validate", 0, FALSE)
  /\ result.status = "returned" /\ ~result.success
  /\ IssuePaths(result.error) = {<<"sentiment">>, <<"urgency">>}

\* The schema accepts o: a mapping with both recognized fields in domain.
Conforms(o) == o.t = "object" /\ ViolatedFields(o) = {}

\* C12: on a structural input deserializeWithZodSafe never throws: it
\* returns success = true with an instance exactly when the input conforms
\* to the schema, and otherwise success = false with the aggregate error and
\* no instance.
C12_SafeNeverThrows ==
  (fn = "deserializeWithZodSafe" /\ arg \in Structural) =>
    /\ \A j \in DOMAIN trace : trace[j].e = "parse" => trace[j].ok
    /\ result.status # "none" =>
         /\ result.status = "returned" /\ result.shape = "outcome"
         /\ result.success <=> Conforms(arg)
         /\ result.success =>
              /\ Len(result.data) = 1 /\ result.data[1].proto = ClassProto
              /\ result.error = NoErr
         /\ ~result.success =>
              /\ result.data = <<>> /\ instance = NoInst
              /\ result.error.type = "ZodError"
              /\ result.error.issues # <<>>

C12_Witness ==
  /\ fn = "deserializeWithZodSafe"
  /\ arg = ArrV(<<NumV("5")>>)
  /\ result.status = "returned" /\ ~result.success
  /\ result.error.issues[1].code = "invalid_type"

HasPrefix(s, p) == Len(s) >= Len(p) /\ SubSeq(s, 1, Len(p)) = p

\* C13: on a text that is not JSON every single-object and array form
\* throws a parse failure after the parse step alone and returns nothing;
\* deserializeWithZodSafe throws too, never returning success = false, and
\* its error's message begins with "Failed to parse JSON".
C13_MalformedTextRaises ==
  (fn \in SingleForms \cup ArrayForms /\ arg \in Malformed) =>
    /\ instance = NoInst /\ out = <<>>
    /\ result.status # "none" =>
         /\ trace = <<Ev("parse", 0, FALSE)>>
         /\ result.status = "thrown" /\ result.data = <<>>
         /\ IF fn = "deserializeWithZodSafe"
            THEN /\ result.error.type = "Error"
                 /\ HasPrefix(result.error.message, "Failed to parse JSON")
            ELSE result.error = SyntaxError

C13_Witness ==
  /\ fn = "deserializeWithZodSafe"
  /\ arg = StrV(<<P("{"), Tok("word", "invalid"), Tok("word", "json"), P("}")>>)
  /\ result.status = "thrown"
  /\ HasPrefix(result.error.message, "Failed to parse JSON")

\* The elements that are mappings, and those of them the schema rejects.
MappingElements == {e \in Elements : e.t = "object"}
InvalidElements == {e \in MappingElements : ~Conforms(e)}

\* C14: the unchecked path validates nothing: on every mapping, whatever
\* its fields hold or lack, deserialize returns an instance of the class
\* with the input's fields unchanged; and deserializeArray on a sequence of
\* mappings returns an instance for each element, also when some element is
\* invalid and deserializeArrayWithZod throws.
C14_UncheckedCarriesAll ==
  /\ (fn = "deserialize" /\ arg \in Mappings /\ result.status # "none") =>
       /\ result.status = "returned" /\ Len(result.data) = 1
       /\ result.data[1].proto = ClassProto
       /\ AsMap(result.data[1].fields) = AsMap(arg.fields)
  /\ (fn = "deserializeArray" /\ result.status # "none") =>
       \A items \in SeqsUpTo(MappingElements, MaxLen) :
         arg = ArrV(items) =>
           /\ result.status = "returned" /\ Len(result.data) = Len(items)
           /\ \A i \in DOMAIN items :
                AsMap(result.data[i].fields) = AsMap(items[i].fields)
           /\ (\E i \in DOMAIN items : items[i] \in InvalidElements) =>
                Run("deserializeArrayWithZod", arg).status = "thrown"

\* Field k of o holds a string that is none of words.
OutOfEnum(o, k, words) ==
  Get(o, Chars(k)).t = "string" /\ ~InDomain(Get(o, Chars(k)), words)
SentimentOutOfEnum(o) ==
  OutOfEnum(o, "sentiment", {"positive", "negative", "neutral"})
UrgencyOutOfEnum(o) == OutOfEnum(o, "urgency", {"high", "medium", "low"})
SentimentOneOf == "sentiment must be one of: positive, negative, neutral"
UrgencyOneOf == "urgency must be one of: high, medium, low"
ThrownWith(message) ==
  result.status = "thrown" /\ result.error.message = message
\* The schema path has failed with a violation at field k.
ViolationAt(k) == ~result.success /\ <<k>> \in IssuePaths(result.error)

\* C15 as stated: on a mapping where a field holds a value outside its
\* enumeration, the hand-written path throws "<field> must be one of: ..."
\* for that field, and the schema path's error has a violation at that
\* field.
C15_OutOfEnumAsStated ==
  /\ (ValidateDone /\ obj.t = "object") =>
       /\ SentimentOutOfEnum(obj) => ThrownWith(SentimentOneOf)
       /\ UrgencyOutOfEnum(obj) => ThrownWith(UrgencyOneOf)
  /\ (SchemaDone /\ obj.t = "object") =>
       /\ SentimentOutOfEnum(obj) => ViolationAt("sentiment")
       /\ UrgencyOutOfEnum(obj) => ViolationAt("urgency")

\* C15, amended: the schema path's error has a violation at every field
\* holding a value outside its enumeration; the hand-written path throws
\* one error, for the first violated field: "sentiment must be one of: ..."
\* when sentiment is outside its enumeration, "urgency must be one of: ..."
\* when urgency is and sentiment is valid, and an error about sentiment
\* alone when urgency is outside its enumeration and sentiment is violated.
C15_FirstOutOfEnumNamed ==
  /\ (ValidateDone /\ obj.t = "object") =>
       /\ SentimentOutOfEnum(obj) => ThrownWith(SentimentOneOf)
       /\ (UrgencyOutOfEnum(obj) /\ ~SentimentViolated(obj)) =>
            ThrownWith(UrgencyOneOf)
       /\ (UrgencyOutOfEnum(obj) /\ SentimentViolated(obj)) =>
            /\ result.status = "thrown"
            /\ result.error.message \in SentimentMessages
  /\ (SchemaDone /\ obj.t = "object") =>
       /\ SentimentOutOfEnum(obj) => ViolationAt("sentiment")
       /\ UrgencyOutOfEnum(obj) => ViolationAt("urgency")

C15_Witness ==
  /\ sfn = "deserializeWithValidation"
  /\ obj = Mapping(NumV("123"), Word("urgent"), <<>>, FALSE)
  /\ LastStep = Ev("validate", 0, FALSE)
  /\ ThrownWith("sentiment must be a string")

\* The fields of a returned instance, as a plain mapping.
FieldsOf(inst) == ObjV(inst.fields)
\* What the caller deserializes again: the mapping of the instance returned,
\* or the sequence of the mappings of the instances returned.
Again ==
  IF fn \in ArrayForms
  THEN ArrV([i \in DOMAIN result.data |-> FieldsOf(result.data[i])])
  ELSE FieldsOf(result.data[1])

\* C16: when a form has succeeded, the same form called on the fields of
\* the instance it returned (of each instance, for an array form) succeeds
\* with an equal result: the same fields on an instance of the same class.
C16_Idempotent ==
  (fn \in SingleForms \cup ArrayForms /\ result.status = "returned"
     /\ result.success) =>
    Run(fn, Again) = result

\* A caller may call a single-object form, an array form, of family fam.
OffersSingle(fam) ==
  \E f \in SingleForms : Family(f) = fam /\ ENABLED Call(f, NullV)
OffersArray(fam) ==
  \E f \in ArrayForms :
    /\ Family(f) = fam /\ Family(ElementForm(f)) = fam
    /\ ENABLED Call(f, ArrV(<<>>))

InputIntact ==
  /\ (fn \in SingleForms /\ spc # "none") => jsonObject = arg
  /\ (fn \in ArrayForms /\ apc \in {"check", "map", "item"}) =>
       arr = Parser(arg).v
  /\ apc = "item" => jsonObject = Parser(arg).v.items[idx]

\* C18: calls are independent and without side effects: through any
\* sequence of calls, successful or failing, the validator's two sets of
\* allowed values keep the values they were built with, no step of a call
\* changes the caller's input, and a call ends as the function does on its
\* own arguments, whatever was called before.
C18_CallsIndependent ==
  /\ [](/\ validSentiments = <<"positive", "negative", "neutral">>
        /\ validUrgencies = <<"high", "medium", "low">>
        /\ InputIntact
        /\ result.status # "none" => result = Run(fn, arg))
  /\ [][/\ validator' = validator
        /\ fn # "none" /\ fn' # "none" => call' = call]_vars

C18_Witness ==
  /\ fn = "validate"
  /\ arg = Mapping(Word("positive"), Word("high"), <<>>, FALSE)
  /\ result.status = "returned"
  /\ validSentiments = InitialSentiments /\ validUrgencies = InitialUrgencies

\* The text held by a string element of arr, decoded.
Decoded(i) == JSONParse(arr.items[i].txt)
TextElements == {i \in DOMAIN arr.items : arr.items[i].t = "string"}

\* C19: an array form hands each element to the single-object form, which
\* decodes a string element as JSON once more: a string holding the text of
\* a mapping becomes the instance that mapping gives, and a string that is
\* not JSON makes the whole call throw the parse error, in the unchecked
\* form too.
C19_ElementsParsedAgain ==
  (fn \in ArrayForms /\ IsArray(arr)) =>
    \A i \in TextElements :
      /\ \A j \in DOMAIN trace :
           (trace[j].e = "parse" /\ trace[j].i = i) =>
             trace[j].ok = Decoded(i).ok
      /\ (apc = "item" /\ idx = i /\ spc # "parse") => obj = Decoded(i).v
      /\ result.status = "returned" =>
           /\ Decoded(i).ok
           /\ result.data[i] = Single(SingleOf(fn), Decoded(i).v).data[1]
      /\ (~Decoded(i).ok /\ result.status # "none") =>
           /\ result.status = "thrown"
           /\ LastStep = Ev("parse", i, FALSE) => result.error = SyntaxError

C19_Witness ==
  /\ fn = "deserializeArray"
  /\ arg = ArrV(<<StrV(Stringify(Mapping(Word("negative"), Word("low"), <<>>,
                                         FALSE))),
                  Word("oops")>>)
  /\ Len(out) = 1
  /\ AsMap(out[1].fields) =
       AsMap(Mapping(Word("negative"), Word("low"), <<>>, FALSE).fields)
  /\ LastStep = Ev("parse", 2, FALSE)
  /\ result = ThrownResult(SyntaxError)

\* Field k of o is absent, or holds something that is no string.
NotAString(o, k) == Get(o, Chars(k)).t # "string"

\* C20: the hand-written validator reports an absent recognized field as it
\* reports one of the wrong type, "<field> must be a string", and has no
\* other error for a missing field; when sentiment is absent or no string
\* the error is about sentiment, whatever urgency holds or lacks.
C20_AbsentAsWrongType ==
  (ValidateDone /\ obj.t = "object") =>
    /\ NotAString(obj, "sentiment") => ThrownWith("sentiment must be a string")
    /\ (~SentimentViolated(obj) /\ NotAString(obj, "urgency")) =>
         ThrownWith("urgency must be a string")
    /\ result.status = "thrown" =>
         /\ result.error.type = "Error" /\ result.error.issues = <<>>
         /\ result.error.message \in SentimentMessages \cup UrgencyMessages
    /\ result.status = "returned" =>
         ~NotAString(obj, "sentiment") /\ ~NotAString(obj, "urgency")

C20_Witness ==
  /\ sfn = "deserializeWithValidation"
  /\ obj = Mapping(UndefinedV, Word("urgent"), <<>>, FALSE)
  /\ ~HasKey(obj.fields, Chars("sentiment"))
  /\ LastStep = Ev("validate", 0, FALSE)
  /\ ThrownWith("sentiment must be a string")

ParsePrefix == "Failed to parse JSON"
\* The step just taken raised an exception: the schema's own, or the
\* TypeError of Object.assign.
SchemaRaised ==
  /\ Family(sfn) = "schema" /\ LastStep.e = "validate" /\ ~LastStep.ok
  /\ SchemaRaises(schema, obj)
AssignRaised == LastStep.e = "assign" /\ ~LastStep.ok

\* C21: deserializeWithZodSafe wraps whatever its try block raises, not the
\* errors of JSON.parse alone: an exception of the schema's safeParse or of
\* the instantiation leaves it as a new Error whose message is "Failed to
\* parse JSON: " and the exception's text, also when the input was
\* well-formed or no text at all; the throwing forms let the same
\* exceptions pass as they are.
C21_EveryExceptionWrapped ==
  /\ (sfn = "deserializeWithZodSafe" /\ result.status = "thrown") =>
       /\ result.error.type = "Error" /\ result.error.issues = <<>>
       /\ HasPrefix(result.error.message, ParsePrefix)
       /\ SchemaRaised => result = ThrownResult(Wrapped(RefinementError))
       /\ AssignRaised => result = ThrownResult(Wrapped(TypeError))
  /\ (sfn = "deserializeWithZodSafe" /\ (SchemaRaised \/ AssignRaised)) =>
       /\ result.status = "thrown"
       /\ trace[1] = Ev("parse", 0, TRUE)
  /\ (sfn \in Functions \ {"deserializeWithZodSafe"}) =>
       /\ SchemaRaised => result = ThrownResult(RefinementError)
       /\ AssignRaised => result = ThrownResult(TypeError)
       /\ result.status = "thrown" =>
            ~HasPrefix(result.error.message, ParsePrefix)

C21_Witness ==
  /\ fn = "deserializeWithZodSafe"
  /\ arg = Mapping(Word("positive"), Word("high"), <<>>, FALSE)
  /\ classType = "ReadOnlySentiment"
  /\ trace = <<Ev("parse", 0, TRUE), Ev("validate", 0, TRUE),
               Ev("create", 0, TRUE), Ev("assign", 0, FALSE)>>
  /\ result.status = "thrown"
  /\ HasPrefix(result.error.message, "Failed to parse JSON: TypeError")

=============================================================================
